---- MODULE Spec2Model ----
(***************************************************************************)
(* The association engine of ASkit: run_all_regressions and the per-task   *)
(* handler _run_single_regression (src/src/askit/mas/analysis.py), with    *)
(* the configuration object built by MASConfig.from_args                   *)
(* (src/src/askit/mas/config.py).                                          *)
(*                                                                         *)
(* Values.  A float is <<n>> (n an integer on a scale 0..PvalOne, where    *)
(* PvalOne stands for 1.0) or NaN; a cell of the data file is <<v>> or the *)
(* polars null; a value computed by a fit other than pval is the symbolic  *)
(* <<name of the fit>>.  A failed_reason is <<text, n, limit>>: the text   *)
(* of the f-string and the two numbers it interpolates.                    *)
(***************************************************************************)
EXTENDS Integers, Sequences, FiniteSets, TLC

\* ------------------------------------------------------------- bounds
MaxRows == 3        \* rows of the data file in the single-task runs
MaxTasks == 3       \* |predictor_columns| * |dependent_columns| in a batch
MaxWorkers == 2     \* largest --num-workers

VARIABLES
    args,          \* the argparse Namespace handed to MASConfig.from_args
    config,        \* the MASConfig shared by all tasks
    data,          \* the rows of the IPC file config.ipc_file
    env,           \* os.environ's POLARS_MAX_THREADS: None when absent
    env_at_call,   \* history: env when run_all_regressions was called
    original_env,  \* run_all_regressions' local original_env
    pc,            \* position of run_all_regressions
    exc,           \* the exception in flight while the finally block runs
    queue,         \* task numbers submitted to the pool, not yet started
    next_task,     \* next task number the pool's callback will submit
    workers,       \* loky worker processes
    ready,         \* rows returned by workers, in completion order
    results,       \* rows the consumer has taken from the generator
    table,         \* the table run_all_regressions returns
    fits,          \* history: per task, the fit functions invoked
    executed,      \* history: per task, how often it was started
    firth,         \* the state of a call of fit_firth (src/ASkit/stats.py)
    pipe,          \* the state of a call of run_mas / run_study
    study          \* the state of one study from the command line to its task

vars == <<args, config, data, env, env_at_call, original_env, pc, exc, queue,
          next_task, workers, ready, results, table, fits, executed, firth, pipe,
          study>>

\* ------------------------------------------------------------- values
None == <<>>
NaN == <<>>
Float(n) == <<n>>
PvalOne == 2        \* the integer that stands for the float 1.0
Pvals == {Float(n) : n \in 0..PvalOne} \cup {NaN}

\* Python's a < b on floats: False when either side is NaN.
FloatLt(a, b) == a # NaN /\ b # NaN /\ a[1] < b[1]

\* polars' total order on floats used by sort: NaN is the largest value.
SortLeq(a, b) == b = NaN \/ (a # NaN /\ a[1] <= b[1])

Models == {"firth", "firth-hybrid", "logistic", "linear"}
BinaryModels == {"logistic", "firth", "firth-hybrid"}

PredNames == <<"p1", "p2", "p3", "p4", "p5">>
DepNames == <<"d1", "d2", "d3", "d4", "d5">>

Range(s) == {s[i] : i \in 1..Len(s)}

\* dict.update: keys of d override or extend schema.
Update(schema, d) ==
    [k \in DOMAIN schema \cup DOMAIN d |-> IF k \in DOMAIN d THEN d[k] ELSE schema[k]]

\* ------------------------------------------------------------- config
\* MASConfig.from_args: the fields of the dataclass the engine reads.  The
\* dataclass has no alpha field and from_args does not pass args.alpha.
from_args(a) ==
    [model |-> a.model,
     num_workers |-> a.num_workers,
     threads_per_worker |-> a.threads_per_worker,
     min_case_count |-> a.min_case_count,
     predictor_columns |-> a.predictors,
     dependent_columns |-> a.dependents,
     covariate_columns |-> a.covariates,
     categorical_covariate_columns |-> a.categorical_covariates,
     fit_intercept |-> ~a.no_intercept,
     missing_covariates_operation |-> a.missing_covariates_operation]

\* Attribute lookup config.<name>: AttributeError when the object has none.
getattr(c, name) ==
    IF name \in DOMAIN c
    THEN [raised |-> FALSE, value |-> c[name], msg |-> ""]
    ELSE [raised |-> TRUE, value |-> None,
          msg |-> "'MASConfig' object has no attribute 'alpha'"]

\* ------------------------------------------------------------- schema
\* failed_reason "nan": the task has not failed.
NoFailure == <<"nan", 0, 0>>

_get_output_schema(model_type) ==
    LET base_schema ==
            [predictor |-> "nan", dependent |-> "nan", pval |-> NaN, beta |-> NaN,
             se |-> NaN, beta_ci_low |-> NaN, beta_ci_high |-> NaN,
             failed_reason |-> NoFailure, equation |-> <<"nan">>]
    IN  IF model_type \in {"logistic", "firth", "firth-hybrid"}
        THEN Update(base_schema,
                    [OR |-> NaN, OR_ci_low |-> NaN, OR_ci_high |-> NaN, cases |-> -9,
                     controls |-> -9, total_n |-> -9, converged |-> FALSE])
        ELSE IF model_type = "linear"
        THEN Update(base_schema, [n_observations |-> -9])
        ELSE base_schema

\* ------------------------------------------------------------- data frame
\* scan_ipc(...).select([predictor, dependent, *covariates])
\*   .drop_nulls([predictor, dependent]).collect()
RECURSIVE FilterRows(_, _, _)
FilterRows(rows, predictor, dependent) ==
    IF rows = <<>> THEN <<>>
    ELSE LET r == Head(rows)
             rest == FilterRows(Tail(rows), predictor, dependent)
         IN  IF r[predictor] = None \/ r[dependent] = None THEN rest ELSE <<r>> \o rest

scan_ipc(ipc, predictor, dependent, cfg) ==
    LET names == <<predictor, dependent>> \o cfg.covariate_columns
        kept == FilterRows(ipc, predictor, dependent)
    IN  [columns |-> names,
         rows |-> [i \in 1..Len(kept) |-> [c \in Range(names) |-> kept[i][c]]]]

load_df(predictor, dependent, cfg) == scan_ipc(data, predictor, dependent, cfg)

\* df.height
height(df) == Len(df.rows)

\* pl.col(dependent).sum()
RECURSIVE SumRows(_, _)
SumRows(rows, col) ==
    IF rows = <<>> THEN 0 ELSE Head(rows)[col][1] + SumRows(Tail(rows), col)

ColumnSum(df, col) == SumRows(df.rows, col)

\* ------------------------------------------------------------- validation
\* mutant: the minimum counts are checked before the variation
_check_case_counts_min_first(df, dependent, min_case_count) ==
    LET n_rows == height(df)
        n_cases == ColumnSum(df, dependent)
        n_controls == n_rows - n_cases
    IN  IF n_cases < min_case_count
        THEN <<FALSE, <<"Insufficient cases", n_cases, min_case_count>>,
               n_cases, n_controls, n_rows>>
        ELSE IF n_controls < min_case_count
        THEN <<FALSE, <<"Insufficient controls", n_controls, min_case_count>>,
               n_cases, n_controls, n_rows>>
        ELSE IF n_cases = 0 \/ n_controls = 0
        THEN <<FALSE, <<"No variation", 0, 0>>, n_cases, n_controls, n_rows>>
        ELSE <<TRUE, NoFailure, n_cases, n_controls, n_rows>>

\* mutant: the controls are checked before the cases
_check_case_counts_controls_first(df, dependent, min_case_count) ==
    LET n_rows == height(df)
        n_cases == ColumnSum(df, dependent)
        n_controls == n_rows - n_cases
    IN  IF n_cases = 0 \/ n_controls = 0
        THEN <<FALSE, <<"No variation", 0, 0>>, n_cases, n_controls, n_rows>>
        ELSE IF n_controls < min_case_count
        THEN <<FALSE, <<"Insufficient controls", n_controls, min_case_count>>,
               n_cases, n_controls, n_rows>>
        ELSE IF n_cases < min_case_count
        THEN <<FALSE, <<"Insufficient cases", n_cases, min_case_count>>,
               n_cases, n_controls, n_rows>>
        ELSE <<TRUE, NoFailure, n_cases, n_controls, n_rows>>

_check_case_counts(df, dependent, min_case_count) ==
    LET n_rows == height(df)
        n_cases == ColumnSum(df, dependent)
        n_controls == n_rows - n_cases
    IN  IF n_cases = 0 \/ n_controls = 0
        THEN <<FALSE, <<"No variation", 0, 0>>, n_cases, n_controls, n_rows>>
        ELSE IF n_cases < min_case_count
        THEN <<FALSE, <<"Insufficient cases", n_cases, min_case_count>>,
               n_cases, n_controls, n_rows>>
        ELSE IF n_controls < min_case_count
        THEN <<FALSE, <<"Insufficient controls", n_controls, min_case_count>>,
               n_cases, n_controls, n_rows>>
        ELSE <<TRUE, NoFailure, n_cases, n_controls, n_rows>>

\* mutant: the case/control check runs before the row-count check
_validate_case_check_first(df, predictor, dependent, cfg, output_schema) ==
    LET s1 == Update(output_schema, [predictor |-> predictor, dependent |-> dependent])
        r == _check_case_counts(df, dependent, cfg.min_case_count)
    IN  IF cfg.model \in {"logistic", "firth", "firth-hybrid"} /\ ~r[1]
        THEN Update(s1, [failed_reason |-> r[2], cases |-> r[3],
                         controls |-> r[4], total_n |-> r[5]])
        ELSE IF height(df) < cfg.min_case_count
        THEN Update(s1, [failed_reason |->
                            <<"Insufficient data", height(df), cfg.min_case_count>>])
        ELSE IF cfg.model \in {"logistic", "firth", "firth-hybrid"}
        THEN Update(s1, [failed_reason |-> r[2], cases |-> r[3],
                         controls |-> r[4], total_n |-> r[5]])
        ELSE Update(s1, [n_observations |-> height(df)])

_validate_regression_input(df, predictor, dependent, cfg, output_schema) ==
    LET s1 == Update(output_schema, [predictor |-> predictor, dependent |-> dependent])
    IN  IF height(df) < cfg.min_case_count
        THEN Update(s1, [failed_reason |->
                            <<"Insufficient data", height(df), cfg.min_case_count>>])
        ELSE IF cfg.model \in {"logistic", "firth", "firth-hybrid"}
        THEN LET r == _check_case_counts(df, dependent, cfg.min_case_count)
             IN  Update(s1, [failed_reason |-> r[2], cases |-> r[3],
                             controls |-> r[4], total_n |-> r[5]])
        ELSE Update(s1, [n_observations |-> height(df)])

\* ------------------------------------------------------------- design matrix
\* pl.col(c).n_unique() over the rows of df
n_unique(df, c) == Cardinality({df.rows[i][c] : i \in 1..height(df)})

\* mutant: no covariate is dropped
_keep_constant_covariates(df, cfg) == df

_drop_constant_covariates_for_regression(df, cfg) ==
    LET covariate_cols == cfg.covariate_columns
        constant_covariates == {c \in Range(covariate_cols) : n_unique(df, c) <= 1}
        keep == SelectSeq(df.columns, LAMBDA c : c \notin constant_covariates)
    IN  IF covariate_cols = <<>> \/ constant_covariates = {}
        THEN df
        ELSE [columns |-> keep,
              rows |-> [i \in 1..height(df) |-> [c \in Range(keep) |-> df.rows[i][c]]]]

\* mutant: the task removes the constant covariates from the shared
\* config.covariate_columns, as preprocessing's _drop_constant_covariates does
config_after_task_drop(cfg, df) ==
    [cfg EXCEPT !.covariate_columns =
        SelectSeq(cfg.covariate_columns, LAMBDA c : n_unique(df, c) > 1)]

\* what lines 298-308 leave in the shared config: they read
\* config.covariate_columns and assign nothing
config_after_task(cfg, df) == cfg

\* ' + '.join(names), as the sequence of the pieces of the string
RECURSIVE Join(_, _)
Join(names, sep) ==
    IF names = <<>> THEN <<>>
    ELSE IF Len(names) = 1 THEN <<names[1]>>
    ELSE <<names[1], sep>> \o Join(Tail(names), sep)

\* lines 110-115: the covariates left in df and the equation string
covariates_of(df) ==
    SelectSeq(df.columns, LAMBDA c : c \notin {df.columns[1], df.columns[2]})

equation_of(df) ==
    <<df.columns[2], " ~ ", df.columns[1], " + ">> \o Join(covariates_of(df), " + ")

\* ------------------------------------------------------------- fits
Estimate(fn) == <<fn>>

\* The p-values and convergence flags a fit is taken to return: every one in
\* a direct call, two distinct numbers and convergence in a batch (one
\* number for firth-hybrid, whose batch rows do not carry it).
FitPvals ==
    IF pc = "direct" THEN Pvals
    ELSE IF config.model = "firth-hybrid" THEN {Float(0)}
    ELSE {Float(0), Float(1)}
FitConverged == IF pc = "direct" THEN BOOLEAN ELSE {TRUE}

\* What a fit function can do on some X, y: return its result dict or raise.
logistic_family_results(fn) ==
    {[pval |-> p, beta |-> Estimate(fn), se |-> Estimate(fn), OR |-> Estimate(fn),
      converged |-> c, beta_ci_low |-> Estimate(fn), beta_ci_high |-> Estimate(fn)] :
        p \in FitPvals, c \in FitConverged}

linear_results ==
    {[pval |-> p, beta |-> Estimate("linear"), se |-> Estimate("linear"),
      converged |-> TRUE, beta_ci_low |-> Estimate("linear"),
      beta_ci_high |-> Estimate("linear")] : p \in FitPvals}

FitErrors == {"Singular matrix"}

\* whether the model a fit function fits has an intercept term:
\* firth_regression and logistic_regression construct
\* FirthLogisticRegression without the fit_intercept argument, whose default
\* is True, and linear_regression calls sm.add_constant; none of them reads
\* config.fit_intercept
intercept_fitted(fn, cfg) == TRUE

Outcomes(fn, rs) ==
    {[fn |-> fn, raised |-> FALSE, msg |-> "", result |-> r,
      intercept |-> intercept_fitted(fn, config)] : r \in rs}
    \cup {[fn |-> fn, raised |-> TRUE, msg |-> m, result |-> <<>>,
           intercept |-> intercept_fitted(fn, config)] : m \in FitErrors}

firth_regression == Outcomes("firth", logistic_family_results("firth"))
logistic_regression == Outcomes("logistic", logistic_family_results("logistic"))
linear_regression == Outcomes("linear", linear_results)

\* lines 120-128: match config.model
model_func(cfg) ==
    IF cfg.model = "firth" THEN firth_regression
    ELSE IF cfg.model = "linear" THEN linear_regression
    ELSE logistic_regression

\* mutant: the except clause logs the error and leaves the row as it is
except_handler_log_only(output_schema, msg) == output_schema

\* line 144: the except clause
except_handler(output_schema, msg) ==
    Update(output_schema, [failed_reason |-> <<msg, 0, 0>>])

\* line 131, threadpool_limits(limits=config.threads_per_worker): the cap on
\* the threads of the worker's native libraries inside the with block
threadpool_limits(cfg) == <<cfg.threads_per_worker>>

\* mutant: the cap is set without a with block and stays after the fit
__exit__keeps_cap(original, limits) == limits

\* the end of the with block, by return or by exception: the limits that
\* held before the block are restored
__exit__(original, limits) == original

\* lines 131-140: the fits of a task are called inside the with block
in_limits(calls, limits) ==
    [k \in DOMAIN calls |-> [calls[k] EXCEPT !.limits = limits]]

\* history record of one fit invocation: the function, the design matrix
\* columns, the thread cap in effect, and what it did
Call(o, X) ==
    [fn |-> o.fn, X |-> X, raised |-> o.raised, msg |-> o.msg,
     result |-> o.result, intercept |-> o.intercept, limits |-> None]

\* lines 133-136: after the first fit returned o1, the condition of the
\* hybrid switch.  `and` evaluates config.alpha only for firth-hybrid.
hybrid_switch(cfg, o1) ==
    IF cfg.model # "firth-hybrid"
    THEN [raised |-> FALSE, msg |-> "", refit |-> FALSE]
    ELSE LET alpha == getattr(cfg, "alpha")
         IN  IF alpha.raised
             THEN [raised |-> TRUE, msg |-> alpha.msg, refit |-> FALSE]
             ELSE [raised |-> FALSE, msg |-> "",
                   refit |-> FloatLt(o1.result.pval, alpha.value)]

\* mutant: the result of the first fit is written into the row as soon as
\* the fit returns, before the hybrid condition is evaluated
try_fit_update_first(cfg, output_schema, X, o1) ==
    LET sw == hybrid_switch(cfg, o1)
    IN  [row |-> IF o1.raised THEN except_handler(output_schema, o1.msg)
                 ELSE IF sw.raised
                 THEN except_handler(Update(output_schema, o1.result), sw.msg)
                 ELSE Update(output_schema, o1.result),
         calls |-> <<Call(o1, X)>>]

\* lines 130-144: the try block when the first fit does o1 and no re-fit
\* follows.  Returns the row and the fits invoked.
try_fit(cfg, output_schema, X, o1) ==
    LET sw == hybrid_switch(cfg, o1)
    IN  [row |-> IF o1.raised THEN except_handler(output_schema, o1.msg)
                 ELSE IF sw.raised THEN except_handler(output_schema, sw.msg)
                 ELSE Update(output_schema, o1.result),
         calls |-> <<Call(o1, X)>>]

\* lines 130-144: the try block when the first fit returned o1, the switch
\* was taken and the Firth re-fit does o2
try_refit(output_schema, X, o1, o2) ==
    [row |-> IF o2.raised THEN except_handler(output_schema, o2.msg)
             ELSE Update(output_schema, o2.result),
     calls |-> <<Call(o1, X), Call(o2, X)>>]

\* ------------------------------------------------------------- orchestrator
\* lines 28-33: the cross product, predictors outermost
targets(cfg) ==
    LET np == Len(cfg.predictor_columns)
        nd == Len(cfg.dependent_columns)
    IN  [k \in 1..(np * nd) |->
            <<cfg.predictor_columns[((k - 1) \div nd) + 1],
              cfg.dependent_columns[((k - 1) % nd) + 1]>>]

num_groups == Len(targets(config))

\* str(config.threads_per_worker)
str(n) == ToString(n)

\* mutant: the finally block only puts a previous value back and never
\* deletes the variable
restore_env_no_del(original) == IF original = None THEN env ELSE original

\* lines 53-56: the finally block
restore_env(original) == IF original = None THEN None ELSE original

Min(a, b) == IF a <= b THEN a ELSE b

\* joblib.cpu_count() of the machine
CpuCount == 2

\* the number of worker processes Parallel(n_jobs=n) uses: joblib counts a
\* negative n_jobs back from the number of CPUs (-1 is all of them)
effective_n_jobs(n) ==
    IF n >= 0 THEN n
    ELSE IF CpuCount + 1 + n >= 1 THEN CpuCount + 1 + n ELSE 1

\* mutant: only the rows of tasks that did not fail are concatenated
concat_successes(rows) ==
    LET kept == SelectSeq(rows, LAMBDA r : r.failed_reason = NoFailure)
        keys == UNION {DOMAIN kept[i] : i \in 1..Len(kept)}
    IN  [i \in 1..Len(kept) |->
            [k \in keys |-> IF k \in DOMAIN kept[i] THEN kept[i][k] ELSE None]]

\* pl.concat(rows, how="diagonal_relaxed"): the union of the columns, a
\* column a row lacks filled with null
concat(rows) ==
    LET keys == UNION {DOMAIN rows[i] : i \in 1..Len(rows)}
    IN  [i \in 1..Len(rows) |->
            [k \in keys |-> IF k \in DOMAIN rows[i] THEN rows[i][k] ELSE None]]

Perms(n) == {f \in [1..n -> 1..n] : \A i, j \in 1..n : f[i] = f[j] => i = j}

\* mutant: the sort puts the rows without a p-value first, as it does nulls
sort_pval_nan_first(rows) ==
    {[i \in 1..Len(rows) |-> rows[f[i]]] : f \in
        {g \in Perms(Len(rows)) :
            \A i \in 1..(Len(rows) - 1) :
                \/ rows[g[i]].pval = NaN
                \/ (rows[g[i + 1]].pval # NaN
                    /\ rows[g[i]].pval[1] <= rows[g[i + 1]].pval[1])}}

\* DataFrame.sort("pval"): maintain_order is False, so rows of equal pval
\* come out in any order; NaN sorts after every number.
sort_pval(rows) ==
    {[i \in 1..Len(rows) |-> rows[f[i]]] : f \in
        {g \in Perms(Len(rows)) :
            \A i \in 1..(Len(rows) - 1) : SortLeq(rows[g[i]].pval, rows[g[i + 1]].pval)}}

Idle == [state |-> "idle", task |-> 0, schema |-> <<>>, limits |-> None]
Terminal == {"returned", "raised", "interrupted"}
\* the pool runs tasks from the call of Parallel until the run is over;
\* "direct" is a direct call of _run_single_regression, as the tests make
PoolRuns == pc \in {"finally", "consume", "direct"}

ReadEnv ==
    /\ UNCHANGED <<firth, pipe, study>>
    /\ pc = "start"
    /\ original_env' = env
    /\ pc' = "set_env"
    /\ UNCHANGED <<args, config, data, env, env_at_call, exc, queue, next_task,
                   workers, ready, results, table, fits, executed>>

SetEnv ==
    /\ UNCHANGED <<firth, pipe, study>>
    /\ pc = "set_env"
    /\ env' = <<str(config.threads_per_worker)>>
    /\ pc' = "parallel"
    /\ UNCHANGED <<args, config, data, env_at_call, original_env, exc, queue,
                   next_task, workers, ready, results, table, fits, executed>>

\* lines 43-51: Parallel(...)(...) with return_as="generator_unordered".  The
\* call raises ValueError for n_jobs = 0; otherwise it submits the first
\* 2 * n_jobs tasks (pre_dispatch) and returns the generator at once.
ParallelCall ==
    /\ UNCHANGED <<firth, pipe, study>>
    /\ pc = "parallel"
    /\ pc' = "finally"
    /\ IF config.num_workers = 0
       THEN /\ exc' = "ValueError"
            /\ UNCHANGED <<queue, next_task>>
       ELSE LET n == Min(num_groups, 2 * effective_n_jobs(config.num_workers))
            IN  /\ queue' = [k \in 1..n |-> k]
                /\ next_task' = n + 1
                /\ UNCHANGED exc
    /\ UNCHANGED <<args, config, data, env, env_at_call, original_env, workers,
                   ready, results, table, fits, executed>>

Finally ==
    /\ UNCHANGED <<firth, pipe, study>>
    /\ pc = "finally"
    /\ env' = restore_env(original_env)
    /\ pc' = IF exc = "" THEN "consume"
             ELSE IF exc = "KeyboardInterrupt" THEN "interrupted" ELSE "raised"
    /\ UNCHANGED <<args, config, data, env_at_call, original_env, exc, queue,
                   next_task, workers, ready, results, table, fits, executed>>

\* a free worker takes the oldest submitted task
StartTask(w) ==
    /\ UNCHANGED <<firth, pipe, study>>
    /\ PoolRuns
    /\ queue # <<>>
    /\ workers[w].state = "idle"
    /\ \A v \in DOMAIN workers : v < w => workers[v].state # "idle"
    /\ workers' = [workers EXCEPT ![w] =
                      [state |-> "validate", task |-> Head(queue), schema |-> <<>>,
                       limits |-> workers[w].limits]]
    /\ queue' = Tail(queue)
    /\ executed' = [executed EXCEPT ![Head(queue)] = @ + 1]
    /\ UNCHANGED <<args, config, data, env, env_at_call, original_env, pc, exc,
                   next_task, ready, results, table, fits>>

\* the worker returns its one-row frame; the pool's callback submits the
\* next task, if any is left
Emit(w, row, limits) ==
    /\ workers' = [workers EXCEPT ![w] = [Idle EXCEPT !.limits = limits]]
    /\ ready' = Append(ready, row)
    /\ IF next_task <= num_groups
       THEN /\ queue' = Append(queue, next_task)
            /\ next_task' = next_task + 1
       ELSE UNCHANGED <<queue, next_task>>

\* _run_single_regression, lines 87-107
Validate(w) ==
    /\ UNCHANGED <<firth, pipe, study>>
    /\ PoolRuns
    /\ workers[w].state = "validate"
    /\ LET tg == targets(config)[workers[w].task]
           df == load_df(tg[1], tg[2], config)
           output_schema == _validate_regression_input(
                                df, tg[1], tg[2], config, _get_output_schema(config.model))
       IN  IF output_schema.failed_reason # NoFailure
           THEN Emit(w, output_schema, workers[w].limits)
           ELSE /\ workers' = [workers EXCEPT ![w].state = "fit",
                                              ![w].schema = output_schema]
                /\ UNCHANGED <<queue, next_task, ready>>
    /\ UNCHANGED <<args, config, data, env, env_at_call, original_env, pc, exc,
                   results, table, fits, executed>>

\* _run_single_regression, lines 108-153
Fit(w) ==
    /\ UNCHANGED <<firth, pipe, study>>
    /\ PoolRuns
    /\ workers[w].state = "fit"
    /\ LET t == workers[w].task
           tg == targets(config)[t]
           df == _drop_constant_covariates_for_regression(
                     load_df(tg[1], tg[2], config), config)
           output_schema == Update(workers[w].schema, [equation |-> equation_of(df)])
           X == <<df.columns[1]>> \o covariates_of(df)
           limits == threadpool_limits(config)
       IN  /\ config' = config_after_task(config, load_df(tg[1], tg[2], config))
           /\ \E o1 \in model_func(config) :
               IF ~o1.raised /\ hybrid_switch(config, o1).refit
               THEN \E o2 \in firth_regression :
                       LET r == try_refit(output_schema, X, o1, o2)
                       IN  /\ fits' = [fits EXCEPT ![t] = in_limits(r.calls, limits)]
                           /\ Emit(w, r.row, __exit__(workers[w].limits, limits))
               ELSE LET r == try_fit(config, output_schema, X, o1)
                    IN  /\ fits' = [fits EXCEPT ![t] = in_limits(r.calls, limits)]
                        /\ Emit(w, r.row, __exit__(workers[w].limits, limits))
    /\ UNCHANGED <<args, data, env, env_at_call, original_env, pc, exc,
                   results, table, executed>>

\* return_as="generator": rows are yielded in submission order, so the
\* next row is the one of task Len(consumed) + 1, once it is there
generator_ordered(rdy, consumed, cfg) ==
    {i \in DOMAIN rdy :
        <<rdy[i].predictor, rdy[i].dependent>> = targets(cfg)[Len(consumed) + 1]}

\* line 47, return_as="generator_unordered": the positions of the completed
\* rows the generator yields next, the one that completed first
generator_unordered(rdy, consumed, cfg) ==
    IF rdy = <<>> THEN {} ELSE {1}

\* line 57: the consumer takes the next completed row from the generator
Consume ==
    /\ UNCHANGED <<firth, pipe, study>>
    /\ pc = "consume"
    /\ \E i \in generator_unordered(ready, results, config) :
          /\ results' = Append(results, ready[i])
          /\ ready' = [k \in 1..(Len(ready) - 1) |->
                           IF k < i THEN ready[k] ELSE ready[k + 1]]
    /\ UNCHANGED <<args, config, data, env, env_at_call, original_env, pc, exc,
                   queue, next_task, workers, table, fits, executed>>

\* lines 57-59: the generator is exhausted; concat raises ValueError on an
\* empty list
Return ==
    /\ UNCHANGED <<firth, pipe, study>>
    /\ pc = "consume"
    /\ Len(results) = num_groups
    /\ IF results = <<>>
       THEN pc' = "raised" /\ UNCHANGED table
       ELSE pc' = "returned" /\ table' \in sort_pval(concat(results))
    /\ UNCHANGED <<args, config, data, env, env_at_call, original_env, exc, queue,
                   next_task, workers, ready, results, fits, executed>>

\* KeyboardInterrupt in the parent process: before the try block it leaves
\* at once, inside the try block it runs the finally block first, while the
\* generator is drained it leaves at once (the finally block has run).  The
\* pool is shut down, its tasks are abandoned and the rows taken so far are
\* dropped with the frame of run_all_regressions.
Interrupt ==
    /\ UNCHANGED <<firth, pipe, study>>
    /\ pc \in {"start", "set_env", "parallel", "consume"}
    /\ IF pc = "parallel"
       THEN pc' = "finally" /\ exc' = "KeyboardInterrupt"
       ELSE pc' = "interrupted" /\ UNCHANGED exc
    /\ workers' = [w \in DOMAIN workers |-> Idle]
    /\ queue' = <<>>
    /\ ready' = <<>>
    /\ results' = <<>>
    /\ UNCHANGED <<args, config, data, env, env_at_call, original_env,
                   next_task, table, fits, executed>>

\* no call of fit_firth, no call of a pipeline
FirthIdle == [pc |-> "idle"]
PipeIdle == [pc |-> "idle"]
StudyIdle == [pc |-> "idle"]

\* ------------------------------------------------------------- initial states
MinCaseCounts == {1, 2}
Alphas == {Float(n) : n \in 0..PvalOne}

Namespace(model, nw, mcc, alpha, preds, deps, covs) ==
    [model |-> model, num_workers |-> nw, threads_per_worker |-> 1,
     min_case_count |-> mcc, alpha |-> alpha, predictors |-> preds,
     dependents |-> deps, covariates |-> covs, categorical_covariates |-> <<>>,
     no_intercept |-> FALSE, missing_covariates_operation |-> "fail"]

\* tables of one predictor and one dependent column: any mix of cases (1),
\* controls (0), the exclusion code -9 of create_phenotypes, rows with a
\* null dependent and rows with a null predictor; the
\* covariates, when there are any, are each constant or alternating
TaskCells ==
    {[p1 |-> <<1>>, d1 |-> d] : d \in {None, <<0>>, <<1>>, <<-9>>}}
    \cup {[p1 |-> None, d1 |-> <<1>>]}

TaskTables(covs) ==
    {[i \in 1..Len(t) |->
        [c \in {"p1", "d1"} \cup Range(covs) |->
            IF c \in {"p1", "d1"} THEN t[i][c] ELSE <<(i % 2) * alt[c]>>]] :
        t \in UNION {[1..n -> TaskCells] : n \in 0..MaxRows},
        alt \in [Range(covs) -> {0, 1}]}

\* tables of a batch: two rows; every predictor is present, the first k
\* dependent columns hold two cases and the others a case and a control; the
\* column c1 holds one repeated value.  The linear model does not look at
\* the cases and gets k = 0 only.
BatchShapes ==
    {s \in (1..MaxTasks) \X (0..MaxTasks) : s[1] * s[2] <= MaxTasks}

BatchTables(np, nd, model) ==
    {[i \in 1..2 |->
        [c \in Range(SubSeq(PredNames, 1, np)) \cup Range(SubSeq(DepNames, 1, nd))
                \cup {"c1"} |->
            IF c = "c1" THEN <<0>>
            ELSE IF c \in Range(PredNames) THEN <<i>>
            ELSE IF i = 1 \/ c \in Range(SubSeq(DepNames, 1, k)) THEN <<1>> ELSE <<0>>]] :
        k \in IF model = "linear" THEN {0} ELSE 0..nd}

BatchModels == {"firth-hybrid", "logistic", "linear"}

\* the --covariates lists of a batch: c1 for the linear model, none for the
\* others
BatchCovariates(model) == IF model = "linear" THEN {<<"c1">>} ELSE {<<>>}

InitCommon ==
    /\ firth = FirthIdle
    /\ pipe = PipeIdle
    /\ study = StudyIdle
    /\ config = from_args(args)
    /\ original_env = None
    /\ exc = ""
    /\ queue = <<>>
    /\ next_task = 1
    /\ ready = <<>>
    /\ results = <<>>
    /\ table = <<>>
    /\ fits = [t \in 1..Len(targets(from_args(args))) |-> <<>>]

\* the values of --num-workers, which the configuration does not check
NumWorkers == -1..MaxWorkers

\* a batch: run_all_regressions is about to be called
Init ==
    /\ \E s \in BatchShapes, m \in BatchModels, nw \in NumWorkers :
          /\ \E covs \in BatchCovariates(m) :
                args = Namespace(m, nw, 1, Float(1), SubSeq(PredNames, 1, s[1]),
                                 SubSeq(DepNames, 1, s[2]), covs)
          /\ data \in BatchTables(s[1], s[2], m)
          /\ workers = [w \in 1..effective_n_jobs(nw) |-> Idle]
    /\ env \in {None, <<"8">>}
    /\ env_at_call = env
    /\ pc = "start"
    /\ executed = [t \in 1..Len(targets(from_args(args))) |-> 0]
    /\ InitCommon

\* the --covariates lists of the single-task runs
\* --alpha matters to the hybrid model only; the others get the default
TaskAlphas(m) == IF m = "firth-hybrid" THEN Alphas ELSE {Float(1)}

TaskCovariates == {<<>>, <<"c1">>, <<"c1", "c2">>}

\* one task: _run_single_regression is about to be called directly
InitTask ==
    /\ \E m \in Models, mcc \in MinCaseCounts, covs \in TaskCovariates,
          ni \in BOOLEAN :
          \E a \in TaskAlphas(m) :
          /\ args = [Namespace(m, 1, mcc, a, <<"p1">>, <<"d1">>, covs)
                        EXCEPT !.no_intercept = ni]
          /\ data \in TaskTables(covs)
    /\ workers = [w \in 1..1 |-> [state |-> "validate", task |-> 1, schema |-> <<>>,
                                  limits |-> None]]
    /\ env = None
    /\ env_at_call = env
    /\ pc = "direct"
    /\ executed = [t \in 1..1 |-> 1]
    /\ InitCommon

Next ==
    \/ ReadEnv
    \/ SetEnv
    \/ ParallelCall
    \/ Finally
    \/ \E w \in DOMAIN workers : StartTask(w)
    \/ \E w \in DOMAIN workers : Validate(w)
    \/ \E w \in DOMAIN workers : Fit(w)
    \/ Consume
    \/ Return
    \/ Interrupt

NextTask ==
    \/ \E w \in DOMAIN workers : Validate(w)
    \/ \E w \in DOMAIN workers : Fit(w)

Spec == Init /\ [][Next]_vars
SpecTask == InitTask /\ [][NextTask]_vars

\* ------------------------------------------------------------- fit_firth
(***************************************************************************)
(* fit_firth of src/ASkit/stats.py.  The coefficient vector is kept as the *)
(* name of a point: <<0, 0>> is the zero vector, <<n, k>> the point        *)
(* b + delta / 2^k that the n-th call of _newton_iteration reaches after k *)
(* halvings of its Newton step delta.  What X and y determine, the length  *)
(* of each Newton step and the value of _firth_loglikelihood at each new   *)
(* point, is drawn when the code computes it.  Lengths are integers on a   *)
(* scale on which convergence_limit is an integer.                         *)
(***************************************************************************)
MaxIter == 3        \* largest max_iter
MaxHalfstep == 2    \* largest max_halfstep
MaxLL == 2          \* largest value of _firth_loglikelihood

LLs == {Float(n) : n \in 0..MaxLL} \cup {NaN}
Deltas == {0, 1, 4}
ConvergenceLimits == {1}

\* a > b on floats: False when either side is NaN
FloatGt(a, b) == a # NaN /\ b # NaN /\ a[1] > b[1]

RECURSIVE Pow2(_)
Pow2(k) == IF k = 0 THEN 1 ELSE 2 * Pow2(k - 1)

\* jnp.linalg.norm(b_new - b) > limit, the norm being delta / 2^k
NormGt(norm, limit) == norm[1] > limit * Pow2(norm[2])

\* lines 56-74: the carry _newton_iteration hands to its halving loop, for
\* every Newton step and value at b_new the data can give.  A step of length
\* 0 leaves b_new at b.
_newton_iteration(b, ll, max_halfstep, n) ==
    UNION {{[b |-> b, b_new |-> IF d = 0 THEN b ELSE <<n, 0>>, old_ll |-> ll,
             new_ll |-> nl, step |-> 0, max_halfstep |-> max_halfstep,
             delta |-> d] : nl \in IF d = 0 THEN {ll} ELSE LLs} : d \in Deltas}

\* lines 79-81
_step_condition(carry) ==
    ~(carry.step = carry.max_halfstep) /\ FloatGt(carry.new_ll, carry.old_ll)

\* lines 84-89, new_ll being the value at the halved point
_step_halving(carry, new_ll) ==
    [carry EXCEPT !.b_new = <<@[1], carry.step + 1>>,
                  !.new_ll = new_ll,
                  !.step = @ + 1]

\* mutant: the loop goes on while iter <= max_iter
_newton_cond_off_by_one(carry, norm, max_iter, convergence_limit) ==
    NormGt(norm, convergence_limit) /\ carry.iter <= max_iter

\* lines 48-51
_newton_cond(carry, norm, max_iter, convergence_limit) ==
    NormGt(norm, convergence_limit) /\ carry.iter < max_iter

\* line 20: fit_firth calls _newton_iteration(X, y, b, max_iter) on the zero
\* vector; the fourth argument is _newton_iteration's max_halfstep.  At the
\* zero vector every pi is 0.5 and the value is a number.
FitFirthFirstIteration ==
    /\ firth.pc = "first"
    /\ \E ll \in LLs \ {NaN} :
          \E c \in _newton_iteration(<<0, 0>>, ll, firth.max_iter, 1) :
              firth' = [firth EXCEPT !.pc = "halving", !.caller = "fit_firth",
                                     !.inner = c]
    /\ UNCHANGED <<args, config, data, env, env_at_call, original_env, pc, exc,
                   queue, next_task, workers, ready, results, table, fits,
                   executed, pipe, study>>

\* one turn of the while_loop of line 75
StepHalving ==
    /\ firth.pc = "halving"
    /\ _step_condition(firth.inner)
    /\ \E nl \in LLs :
          firth' = [firth EXCEPT !.inner = _step_halving(firth.inner, nl)]
    /\ UNCHANGED <<args, config, data, env, env_at_call, original_env, pc, exc,
                   queue, next_task, workers, ready, results, table, fits,
                   executed, pipe, study>>

\* the while_loop of line 75 ends and _newton_iteration returns: to line 20,
\* where fit_firth keeps b_new only and builds the carry of lines 21-32, or
\* to _newton_raphson, lines 42-45
NewtonIterationReturn ==
    /\ firth.pc = "halving"
    /\ ~_step_condition(firth.inner)
    /\ LET iter == firth.inner
           step == [old_ll |-> iter.old_ll, new_ll |-> iter.new_ll,
                    step |-> iter.step, max_halfstep |-> iter.max_halfstep,
                    delta |-> iter.delta, caller |-> firth.caller]
       IN  firth' = [firth EXCEPT
                !.pc = "cond",
                !.carry = IF firth.caller = "fit_firth"
                          THEN [b_new |-> iter.b_new, b |-> <<0, 0>>,
                                old_ll |-> Float(0), new_ll |-> Float(0), iter |-> 1]
                          ELSE [@ EXCEPT !.new_ll = iter.new_ll,
                                         !.b_new = iter.b_new,
                                         !.iter = @ + 1],
                !.norm = <<iter.delta, iter.step>>,
                !.ll_at_b_new = iter.new_ll,
                !.steps = Append(@, step)]
    /\ UNCHANGED <<args, config, data, env, env_at_call, original_env, pc, exc,
                   queue, next_task, workers, ready, results, table, fits,
                   executed, pipe, study>>

\* lines 33-35 and 48-51: the test of the outer while_loop; when it fails
\* fit_firth returns iter, b_new and new_ll of the carry
NewtonCond ==
    /\ firth.pc = "cond"
    /\ IF _newton_cond(firth.carry, firth.norm, firth.max_iter,
                       firth.convergence_limit)
       THEN firth' = [firth EXCEPT !.pc = "body"]
       ELSE firth' = [firth EXCEPT
                !.pc = "done",
                !.ret = <<firth.carry.iter, firth.carry.b_new, firth.carry.new_ll>>]
    /\ UNCHANGED <<args, config, data, env, env_at_call, original_env, pc, exc,
                   queue, next_task, workers, ready, results, table, fits,
                   executed, pipe, study>>

\* lines 38-41: _newton_raphson moves b to b_new and calls _newton_iteration
\* with the carry's max_halfstep; the value at b is the one computed for it
\* as b_new by the call before
NewtonRaphson ==
    /\ firth.pc = "body"
    /\ \E c \in _newton_iteration(firth.carry.b_new, firth.ll_at_b_new,
                                  firth.max_halfstep, Len(firth.steps) + 1) :
          firth' = [firth EXCEPT !.pc = "halving", !.caller = "_newton_raphson",
                                 !.carry = [@ EXCEPT !.b = firth.carry.b_new],
                                 !.inner = c]
    /\ UNCHANGED <<args, config, data, env, env_at_call, original_env, pc, exc,
                   queue, next_task, workers, ready, results, table, fits,
                   executed, pipe, study>>

\* the engine is not running
EngineIdle ==
    /\ args = Namespace("firth", 1, 1, Float(1), <<"p1">>, <<"d1">>, <<>>)
    /\ config = from_args(args)
    /\ data = <<>>
    /\ env = None
    /\ env_at_call = None
    /\ original_env = None
    /\ pc = "idle"
    /\ exc = ""
    /\ queue = <<>>
    /\ next_task = 1
    /\ workers = <<>>
    /\ ready = <<>>
    /\ results = <<>>
    /\ table = <<>>
    /\ fits = <<>>
    /\ executed = <<>>

\* fit_firth is about to be called
InitFirth ==
    /\ EngineIdle
    /\ pipe = PipeIdle
    /\ study = StudyIdle
    /\ \E mi \in 1..MaxIter, mh \in 0..MaxHalfstep, cl \in ConvergenceLimits :
          firth = [pc |-> "first", caller |-> "", max_iter |-> mi,
                   max_halfstep |-> mh, convergence_limit |-> cl,
                   carry |-> <<>>, inner |-> <<>>, norm |-> <<0, 0>>,
                   ll_at_b_new |-> NaN, steps |-> <<>>, ret |-> <<>>]

NextFirth ==
    \/ FitFirthFirstIteration
    \/ StepHalving
    \/ NewtonIterationReturn
    \/ NewtonCond
    \/ NewtonRaphson

SpecFirth == InitFirth /\ [][NextFirth]_vars
\* jax runs the traced loops to their end
SpecFirthFair == SpecFirth /\ WF_vars(NextFirth)

\* ------------------------------------------------------------- pipeline
(***************************************************************************)
(* run_mas (src/src/askit/mas/pipeline.py) and run_study                   *)
(* (src/src/askit/run_study/pipeline.py), which are the same code, with    *)
(* preprocess_input, _write_temp_ipc_file and cleanup_ipc of               *)
(* src/src/askit/run_study/preprocessing.py.  pipe.ipc_file is             *)
(* config.ipc_file, pipe.disk tells whether the temporary file exists, and *)
(* pipe.exc is the exception in flight or, after the exit, the one the     *)
(* caller receives.                                                        *)
(***************************************************************************)
engine_vars == <<args, config, data, env, env_at_call, original_env, pc, exc,
                 queue, next_task, workers, ready, results, table, fits, executed>>

TempName == <<"tmp.ipc">>

\* the positions inside the try block of lines 17-20
InPreprocess == {"preprocess", "tempfile", "assign", "sink", "register"}
InTry == InPreprocess \cup {"analysis", "postprocess"}

\* cleanup_ipc, lines 263-270: os.path.exists raises TypeError for None; an
\* OSError of os.unlink is caught
cleanup_ipc(temp_ipc_file, disk, unlink_raises) ==
    IF temp_ipc_file = None
    THEN [raised |-> "TypeError", disk |-> disk]
    ELSE IF disk /\ ~unlink_raises
    THEN [raised |-> "", disk |-> FALSE]
    ELSE [raised |-> "", disk |-> disk]

\* an exception leaves the try block
Raise(e) == pipe' = [pipe EXCEPT !.pc = "except", !.exc = e]

\* lines 12-16
PipeStart ==
    /\ pipe.pc = "start"
    /\ pipe' = [pipe EXCEPT !.pc = IF pipe.dry_run THEN "exited" ELSE "preprocess"]
    /\ UNCHANGED <<engine_vars, firth, study>>

\* preprocess_input, lines 21-26: reading and transforming the data; a
\* ValueError for missing covariate values under "fail"
PreprocessTransform ==
    /\ pipe.pc = "preprocess"
    /\ IF pipe.preprocess_raises
       THEN Raise("ValueError")
       ELSE pipe' = [pipe EXCEPT !.pc = "tempfile"]
    /\ UNCHANGED <<engine_vars, firth, study>>

\* line 255: NamedTemporaryFile(delete=False) creates the file
CreateTempFile ==
    /\ pipe.pc = "tempfile"
    /\ pipe' = [pipe EXCEPT !.pc = "assign", !.disk = TRUE]
    /\ UNCHANGED <<engine_vars, firth, study>>

\* lines 256-257
AssignIpcFile ==
    /\ pipe.pc = "assign"
    /\ pipe' = [pipe EXCEPT !.pc = "sink", !.ipc_file = TempName]
    /\ UNCHANGED <<engine_vars, firth, study>>

\* line 258: data.sink_ipc, which can fail with an OSError
SinkIpc ==
    /\ pipe.pc = "sink"
    /\ IF pipe.sink_raises
       THEN Raise("OSError")
       ELSE pipe' = [pipe EXCEPT !.pc = "register"]
    /\ UNCHANGED <<engine_vars, firth, study>>

\* line 260: atexit.register(cleanup_ipc, temp_ipc_name)
RegisterAtExit ==
    /\ pipe.pc = "register"
    /\ pipe' = [pipe EXCEPT !.pc = "analysis", !.registered = TRUE]
    /\ UNCHANGED <<engine_vars, firth, study>>

\* line 19: run_all_regressions returns the table, or raises the ValueError
\* of Parallel(n_jobs=0)
RunAllRegressions ==
    /\ pipe.pc = "analysis"
    /\ IF pipe.num_workers = 0
       THEN Raise("ValueError")
       ELSE pipe' = [pipe EXCEPT !.pc = "postprocess"]
    /\ UNCHANGED <<engine_vars, firth, study>>

\* line 20: postprocess_results writes the output file, or raises the
\* ValueError of an unsupported suffix
PostprocessResults ==
    /\ pipe.pc = "postprocess"
    /\ IF pipe.suffix_ok
       THEN pipe' = [pipe EXCEPT !.pc = "finally", !.output_written = TRUE]
       ELSE Raise("ValueError")
    /\ UNCHANGED <<engine_vars, firth, study>>

\* the user's Ctrl-C while the try block runs
PipeInterrupt ==
    /\ pipe.pc \in InTry
    /\ pipe' = [pipe EXCEPT !.pc = "except", !.exc = "KeyboardInterrupt",
                            !.interrupted_at = pipe.pc]
    /\ UNCHANGED <<engine_vars, firth, study>>

\* lines 21-25: KeyboardInterrupt is logged and dropped, any other
\* exception is logged and raised again
ExceptClause ==
    /\ pipe.pc = "except"
    /\ pipe' = [pipe EXCEPT !.pc = "finally",
                            !.exc = IF @ = "KeyboardInterrupt" THEN "" ELSE @]
    /\ UNCHANGED <<engine_vars, firth, study>>

\* lines 26-27: an exception of the finally block replaces the one in flight
PipeFinally ==
    /\ pipe.pc = "finally"
    /\ LET r == cleanup_ipc(pipe.ipc_file, pipe.disk, pipe.unlink_raises)
       IN  pipe' = [pipe EXCEPT !.pc = "exited",
                                !.disk = r.disk,
                                !.exc = IF r.raised # "" THEN r.raised ELSE @,
                                !.in_flight = pipe.exc,
                                !.cleanups = @ + 1]
    /\ UNCHANGED <<engine_vars, firth, study>>

\* the interpreter exits and runs the handler registered on line 260
AtExit ==
    /\ pipe.pc = "exited"
    /\ LET r == IF pipe.registered
                THEN cleanup_ipc(TempName, pipe.disk, pipe.unlink_raises)
                ELSE [raised |-> "", disk |-> pipe.disk]
       IN  pipe' = [pipe EXCEPT !.pc = "process_exit",
                                !.disk = r.disk,
                                !.atexit_raised = r.raised,
                                !.cleanups = IF pipe.registered THEN @ + 1 ELSE @]
    /\ UNCHANGED <<engine_vars, firth, study>>

\* a pipeline is about to be called
InitPipeline ==
    /\ EngineIdle
    /\ firth = FirthIdle
    /\ study = StudyIdle
    /\ \E dr, pr, sr, ur, so \in BOOLEAN, nw \in 0..MaxWorkers :
          pipe = [pc |-> "start", dry_run |-> dr, num_workers |-> nw,
                  preprocess_raises |-> pr, sink_raises |-> sr,
                  unlink_raises |-> ur, suffix_ok |-> so, ipc_file |-> None,
                  disk |-> FALSE, registered |-> FALSE, output_written |-> FALSE,
                  exc |-> "", in_flight |-> "", interrupted_at |-> "",
                  atexit_raised |-> "", cleanups |-> 0]

NextPipeline ==
    \/ PipeStart
    \/ PreprocessTransform
    \/ CreateTempFile
    \/ AssignIpcFile
    \/ SinkIpc
    \/ RegisterAtExit
    \/ RunAllRegressions
    \/ PostprocessResults
    \/ PipeInterrupt
    \/ ExceptClause
    \/ PipeFinally
    \/ AtExit

SpecPipeline == InitPipeline /\ [][NextPipeline]_vars

\* ------------------------------------------------------------- config construction
\* MASConfig.__post_init__ on the column list arguments, and the study that
\* follows: preprocess_input on the input file, then one task on the IPC file
ColumnNames == <<"p1", "d1", "c1", "c2">>

\* the column list arguments, each as the list of its comma separated names
ColumnStrs ==
    {<<>>, <<"p1">>, <<"d1">>, <<"c1">>, <<"c1", "c2">>, <<"p1", "c1">>, <<"zz">>}

\* lines 204-218, for names without the 'i:' prefix
_parse_column_list(column_str, column_names) ==
    IF \E i \in DOMAIN column_str : column_str[i] \notin Range(column_names)
    THEN [raised |-> "ValueError", value |-> <<>>]
    ELSE [raised |-> "", value |-> column_str]

\* mutant: the dependent and covariate sets are not compared
_assert_unique_no_dependent_check(cfg) ==
    LET predictor_set == Range(cfg.predictor_columns)
        dependent_set == Range(cfg.dependent_columns)
        covariate_set == Range(cfg.covariate_columns)
        cat_covariate_set == Range(cfg.categorical_covariate_columns)
    IN  IF predictor_set \cap dependent_set # {} THEN "ValueError"
        ELSE IF predictor_set \cap covariate_set # {} THEN "ValueError"
        ELSE IF cat_covariate_set = {} THEN ""
        ELSE IF ~(cat_covariate_set \subseteq covariate_set) THEN "ValueError"
        ELSE ""

\* lines 262-280: the exception raised, "" when none
_assert_unique_column_sets(cfg) ==
    LET predictor_set == Range(cfg.predictor_columns)
        dependent_set == Range(cfg.dependent_columns)
        covariate_set == Range(cfg.covariate_columns)
        cat_covariate_set == Range(cfg.categorical_covariate_columns)
    IN  IF predictor_set \cap dependent_set # {} THEN "ValueError"
        ELSE IF predictor_set \cap covariate_set # {} THEN "ValueError"
        ELSE IF dependent_set \cap covariate_set # {} THEN "ValueError"
        ELSE IF cat_covariate_set = {} THEN ""
        ELSE IF ~(cat_covariate_set \subseteq covariate_set) THEN "ValueError"
        ELSE ""

\* lines 195-202
ParseColumnLists ==
    /\ study.pc = "parse"
    /\ LET a == study.args
           p == _parse_column_list(a.predictors, ColumnNames)
           d == _parse_column_list(a.dependents, ColumnNames)
           c == _parse_column_list(a.covariates, ColumnNames)
           cc == _parse_column_list(a.categorical_covariates, ColumnNames)
       IN  IF \E r \in {p, d, c, cc} : r.raised # ""
           THEN study' = [study EXCEPT !.pc = "raised", !.raised = "ValueError"]
           ELSE study' = [study EXCEPT !.pc = "assert", !.config = from_args(a)]
    /\ UNCHANGED <<engine_vars, firth, pipe>>

\* line 96
AssertUniqueColumnSets ==
    /\ study.pc = "assert"
    /\ LET e == _assert_unique_column_sets(study.config)
       IN  IF e # ""
           THEN study' = [study EXCEPT !.pc = "raised", !.raised = e]
           ELSE study' = [study EXCEPT !.pc = "constructed"]
    /\ UNCHANGED <<engine_vars, firth, pipe>>

\* MASConfig.from_args is about to be called
InitConfig ==
    /\ EngineIdle
    /\ firth = FirthIdle
    /\ pipe = PipeIdle
    /\ \E p, d, c, cc \in ColumnStrs :
          study = [pc |-> "parse", raised |-> "", config |-> <<>>,
                   args |-> [Namespace("linear", 1, 1, Float(1), p, d, c)
                                EXCEPT !.categorical_covariates = cc]]

NextConfig ==
    \/ ParseColumnLists
    \/ AssertUniqueColumnSets

SpecConfig == InitConfig /\ [][NextConfig]_vars

\* ------------------------------------------------------------- preprocessing
\* preprocess_input for a study that is not sex specific and has no
\* categorical covariates (_limit_to_sex_specific and
\* _create_dummy_covariates return the data as it is), followed by one task
MissingCovariatesOperations == {"fail", "drop", "min", "max", "zero", "one"}

\* the frame with the listed columns removed
Drop(lf, cols) ==
    LET keep == SelectSeq(lf.columns, LAMBDA c : c \notin cols)
    IN  [columns |-> keep,
         rows |-> [i \in 1..Len(lf.rows) |-> [c \in Range(keep) |-> lf.rows[i][c]]]]

\* lines 126-143: pl.col(columns).null_count()
_count_missing_values(lf, columns) ==
    [c \in Range(columns) |-> Cardinality({i \in 1..Len(lf.rows) : lf.rows[i][c] = None})]

\* fill_null(strategy=...) of one column: the value that replaces a null
\* (null when the column holds nothing to take a minimum or maximum of)
fill_null(lf, c, strategy) ==
    LET vals == {lf.rows[i][c][1] : i \in {k \in 1..Len(lf.rows) : lf.rows[k][c] # None}}
    IN  IF strategy = "zero" THEN <<0>>
        ELSE IF strategy = "one" THEN <<1>>
        ELSE IF vals = {} THEN None
        ELSE IF strategy = "min" THEN <<CHOOSE v \in vals : \A u \in vals : v <= u>>
        ELSE <<CHOOSE v \in vals : \A u \in vals : v >= u>>

\* mutant: the covariates' missing values are left as they are
_keep_missing_covariates(lf, cfg) == [raised |-> "", lf |-> lf]

\* lines 77-125
_handle_missing_covariates(lf, cfg) ==
    IF cfg.missing_covariates_operation = "fail"
    THEN LET missing_counts == _count_missing_values(lf, cfg.covariate_columns)
         IN  IF \E c \in DOMAIN missing_counts : missing_counts[c] > 0
             THEN [raised |-> "ValueError", lf |-> lf]
             ELSE [raised |-> "", lf |-> lf]
    ELSE IF cfg.missing_covariates_operation = "drop"
    THEN [raised |-> "",
          lf |-> [lf EXCEPT !.rows =
                     SelectSeq(lf.rows, LAMBDA r :
                         \A c \in Range(cfg.covariate_columns) : r[c] # None)]]
    ELSE [raised |-> "",
          lf |-> [lf EXCEPT !.rows =
                     [i \in 1..Len(lf.rows) |->
                         [c \in DOMAIN lf.rows[i] |->
                             IF c \in Range(cfg.covariate_columns) /\ lf.rows[i][c] = None
                             THEN fill_null(lf, c, cfg.missing_covariates_operation)
                             ELSE lf.rows[i][c]]]]]

\* lines 148-180: the frame and the covariate list the function leaves in
\* the config
_drop_constant_covariates(lf, cfg) ==
    LET constant_covariates ==
            {c \in Range(cfg.covariate_columns) : n_unique(lf, c) <= 1}
    IN  IF constant_covariates # {}
        THEN [lf |-> Drop(lf, constant_covariates),
              covariate_columns |->
                  SelectSeq(cfg.covariate_columns, LAMBDA c : c \notin constant_covariates)]
        ELSE [lf |-> lf, covariate_columns |-> cfg.covariate_columns]

\* preprocess_input, line 24
HandleMissingCovariates ==
    /\ study.pc = "handle_missing"
    /\ LET r == _handle_missing_covariates(study.lf, study.config)
       IN  IF r.raised # ""
           THEN study' = [study EXCEPT !.pc = "raised", !.raised = r.raised]
           ELSE study' = [study EXCEPT !.pc = "drop_constant", !.lf = r.lf]
    /\ UNCHANGED <<engine_vars, firth, pipe>>

\* preprocess_input, line 25
DropConstantCovariates ==
    /\ study.pc = "drop_constant"
    /\ LET r == _drop_constant_covariates(study.lf, study.config)
       IN  study' = [study EXCEPT !.pc = "write_ipc", !.lf = r.lf,
                                  !.config.covariate_columns = r.covariate_columns]
    /\ UNCHANGED <<engine_vars, firth, pipe>>

\* preprocess_input, lines 26-27
WriteTempIpcFile ==
    /\ study.pc = "write_ipc"
    /\ study' = [study EXCEPT !.pc = "task", !.ipc = study.lf.rows]
    /\ UNCHANGED <<engine_vars, firth, pipe>>

\* _run_single_regression, lines 88-107, for the pair (p1, d1)
LoadAndValidate ==
    /\ study.pc = "task"
    /\ LET df == scan_ipc(study.ipc, "p1", "d1", study.config)
           output_schema == _validate_regression_input(
                                df, "p1", "d1", study.config,
                                _get_output_schema(study.config.model))
       IN  study' = [study EXCEPT
                        !.pc = IF output_schema.failed_reason # NoFailure
                               THEN "emitted" ELSE "fit",
                        !.df = df, !.schema = output_schema]
    /\ UNCHANGED <<engine_vars, firth, pipe>>

\* _run_single_regression, lines 109-118: the rows of X and y
PrepareFit ==
    /\ study.pc = "fit"
    /\ study' = [study EXCEPT
                    !.pc = "fitted",
                    !.X = _drop_constant_covariates_for_regression(
                              study.df, study.config).rows]
    /\ UNCHANGED <<engine_vars, firth, pipe>>

\* the rows of the input file: the predictor is 1 or null, the dependent a
\* case or a control, the covariate c1 is 0, 1 or null and c2 alternates
StudyCells ==
    {[p1 |-> <<1>>, d1 |-> <<d>>, c1 |-> c] : d \in {0, 1}, c \in {None, <<0>>, <<1>>}}
    \cup {[p1 |-> None, d1 |-> <<1>>, c1 |-> <<0>>]}

StudyTables ==
    {[columns |-> ColumnNames,
      rows |-> [i \in 1..Len(t) |->
                  [c \in Range(ColumnNames) |->
                      IF c = "c2" THEN <<i % 2>> ELSE t[i][c]]]] :
        t \in UNION {[1..n -> StudyCells] : n \in 0..MaxRows}}

\* preprocess_input is about to be called on a constructed config
InitStudy ==
    /\ EngineIdle
    /\ firth = FirthIdle
    /\ pipe = PipeIdle
    /\ \E m \in {"logistic", "linear"}, op \in MissingCovariatesOperations,
          covs \in {<<"c1">>, <<"c1", "c2">>}, lf \in StudyTables :
          study = [pc |-> "handle_missing", raised |-> "", input |-> lf, lf |-> lf,
                   config |-> from_args(
                       [Namespace(m, 1, 1, Float(1), <<"p1">>, <<"d1">>, covs)
                           EXCEPT !.missing_covariates_operation = op]),
                   ipc |-> <<>>, df |-> <<>>, schema |-> <<>>, X |-> <<>>]

NextStudy ==
    \/ HandleMissingCovariates
    \/ DropConstantCovariates
    \/ WriteTempIpcFile
    \/ LoadAndValidate
    \/ PrepareFit

SpecStudy == InitStudy /\ [][NextStudy]_vars

\* ------------------------------------------------------------- claims
\* the rows the workers have returned so far, consumed or not
Emitted == results \o ready

PairOf(t) == targets(config)[t]

\* the positions of Emitted that carry task t's pair
EmittedFor(t) ==
    {i \in 1..Len(Emitted) : /\ Emitted[i].predictor = PairOf(t)[1]
                             /\ Emitted[i].dependent = PairOf(t)[2]}

TableFor(t) ==
    {i \in 1..Len(table) : /\ table[i].predictor = PairOf(t)[1]
                           /\ table[i].dependent = PairOf(t)[2]}

\* the data frame task t works on
DfOf(t) == load_df(PairOf(t)[1], PairOf(t)[2], config)

DepValues(t) == {DfOf(t).rows[i][PairOf(t)[2]][1] : i \in 1..height(DfOf(t))}

CountDep(t, v) ==
    Cardinality({i \in 1..height(DfOf(t)) : DfOf(t).rows[i][PairOf(t)[2]] = <<v>>})

\* the run has not been torn down by an interrupt
Alive == pc \notin {"interrupted"} /\ exc # "KeyboardInterrupt"

\* the schema as _validate_regression_input left it, for every task whose
\* validation has run: a row returned without a fit, or the schema a worker
\* holds before its fit
Validated ==
    {Emitted[i] : i \in UNION {EmittedFor(t) : t \in {u \in DOMAIN fits : fits[u] = <<>>}}}
    \cup {workers[w].schema : w \in {v \in DOMAIN workers : workers[v].state = "fit"}}

TaskOfSchema(s) ==
    CHOOSE t \in DOMAIN fits : PairOf(t) = <<s.predictor, s.dependent>>

\* C1: when run_all_regressions returns a table, the table has exactly
\* |predictor_columns| * |dependent_columns| rows, every pair of the cross
\* product was started exactly once and has exactly one row carrying it.
C1_OneRowPerPair ==
    pc = "returned" =>
        /\ Len(table) = Len(config.predictor_columns) * Len(config.dependent_columns)
        /\ \A t \in DOMAIN fits :
              executed[t] = 1 /\ Cardinality(TableFor(t)) = 1

\* a returned table holding a row that failed validation, a row whose fit
\* raised and a row of a successful fit
C1_Witness ==
    /\ pc = "returned"
    /\ \E i, j, k \in 1..Len(table) :
          /\ table[i].failed_reason[1] = "No variation"
          /\ table[j].failed_reason[1] = "Singular matrix"
          /\ table[k].failed_reason = NoFailure /\ table[k].pval # NaN

\* C2: a fit that raises is not propagated: the task still returns exactly
\* one row, whose failed_reason is the exception's message; the batch does
\* not end in an exception because of it, and when it returns every task
\* has its row.
C2_FitExceptionIsolated ==
    /\ Alive =>
          \A t \in DOMAIN fits :
              (fits[t] # <<>> /\ fits[t][Len(fits[t])].raised) =>
                  /\ Cardinality(EmittedFor(t)) = 1
                  /\ \A i \in EmittedFor(t) :
                        Emitted[i].failed_reason = <<fits[t][Len(fits[t])].msg, 0, 0>>
    /\ pc = "raised" => (exc = "ValueError" \/ num_groups = 0)
    /\ pc = "returned" => \A t \in DOMAIN fits : Cardinality(TableFor(t)) = 1

\* a returned table in which one task's fit raised and another task's fit
\* succeeded
C2_Witness ==
    /\ pc = "returned"
    /\ \E t, u \in DOMAIN fits :
          /\ fits[t] # <<>> /\ fits[t][1].raised
          /\ \E i \in TableFor(t) : table[i].failed_reason[1] = "Singular matrix"
          /\ fits[u] # <<>> /\ ~fits[u][1].raised
          /\ \E i \in TableFor(u) : table[i].failed_reason = NoFailure

\* C3: on every exit route of run_all_regressions POLARS_MAX_THREADS has the
\* value it had when the call started, and is absent if it was absent.
C3_EnvRestoredOnExit == pc \in Terminal => env = env_at_call

\* the call was interrupted inside the try block after the variable, absent
\* before, had been set
C3_Witness ==
    /\ pc = "interrupted"
    /\ exc = "KeyboardInterrupt"
    /\ env_at_call = None
    /\ env = None

\* C4: the override is held for the whole batch: whenever a task is
\* submitted, started or running, POLARS_MAX_THREADS is still set to
\* threads_per_worker and the finally block has not run.
C4_OverrideHeldWhileTasksRun ==
    (queue # <<>> \/ \E w \in DOMAIN workers : workers[w].state # "idle") =>
        (pc = "finally" /\ env = <<str(config.threads_per_worker)>>)

\* C5: a firth-hybrid task that passes validation runs the logistic fit
\* first and then the Firth fit iff the logistic p-value is below the
\* configured alpha; when triggered the row carries the Firth result; the
\* other models run exactly one fit.
C5_HybridSwitchIffBelowAlpha ==
    \A t \in DOMAIN fits :
        fits[t] # <<>> =>
            IF config.model = "firth-hybrid"
            THEN /\ fits[t][1].fn = "logistic"
                 /\ Len(fits[t]) <= 2
                 /\ ~fits[t][1].raised =>
                       /\ (Len(fits[t]) = 2) <=> FloatLt(fits[t][1].result.pval, args.alpha)
                       /\ Len(fits[t]) = 2 =>
                             /\ fits[t][2].fn = "firth"
                             /\ ~fits[t][2].raised =>
                                   \A i \in EmittedFor(t) :
                                       /\ Emitted[i].pval = fits[t][2].result.pval
                                       /\ Emitted[i].beta = Estimate("firth")
                                       /\ Emitted[i].OR = Estimate("firth")
            ELSE Len(fits[t]) = 1

\* C6: with fewer available rows than min_case_count the row's
\* failed_reason contains "Insufficient data", no fit function is invoked,
\* and the case/control check has not run (its counts stay at -9).
C6_InsufficientDataFirst ==
    \A t \in DOMAIN fits :
        height(DfOf(t)) < config.min_case_count =>
            /\ fits[t] = <<>>
            /\ \A w \in DOMAIN workers : workers[w].task = t => workers[w].state # "fit"
            /\ \A i \in EmittedFor(t) :
                  /\ Emitted[i].failed_reason[1] = "Insufficient data"
                  /\ config.model \in BinaryModels =>
                        /\ Emitted[i].cases = -9
                        /\ Emitted[i].controls = -9
                        /\ Emitted[i].total_n = -9

\* a returned row of a task with too few rows, all of them cases, so that
\* the case/control check would have failed too
C6_Witness ==
    \E t \in DOMAIN fits :
        /\ height(DfOf(t)) < config.min_case_count
        /\ height(DfOf(t)) > 0
        /\ DepValues(t) = {1}
        /\ config.model \in BinaryModels
        /\ EmittedFor(t) # {}

\* C7 as stated: a binary-family task whose available responses are all
\* identical (all cases or all controls) gets failed_reason "No variation"
\* and the true counts.
C7_NoVariationAlways ==
    \A t \in DOMAIN fits :
        (config.model \in BinaryModels /\ DepValues(t) \in {{0}, {1}}) =>
            \A i \in EmittedFor(t) :
                /\ Emitted[i].failed_reason[1] = "No variation"
                /\ Emitted[i].cases = CountDep(t, 1)
                /\ Emitted[i].controls = CountDep(t, 0)

\* C7 amended: a binary-family task with at least min_case_count available
\* rows, all of them cases (1) or all of them controls (0), gets
\* failed_reason "No variation", the true counts and no fit.
C7_NoVariationWhenEnoughRows ==
    \A t \in DOMAIN fits :
        (/\ config.model \in BinaryModels
         /\ height(DfOf(t)) >= config.min_case_count
         /\ DepValues(t) \in {{0}, {1}}) =>
            /\ fits[t] = <<>>
            /\ \A i \in EmittedFor(t) :
                  /\ Emitted[i].failed_reason[1] = "No variation"
                  /\ Emitted[i].cases = CountDep(t, 1)
                  /\ Emitted[i].controls = CountDep(t, 0)
                  /\ Emitted[i].total_n = height(DfOf(t))

\* a returned row of a task with enough rows, all of them controls
C7_Witness ==
    \E t \in DOMAIN fits :
        /\ config.model \in BinaryModels
        /\ height(DfOf(t)) >= config.min_case_count
        /\ height(DfOf(t)) >= 2
        /\ DepValues(t) = {0}
        /\ EmittedFor(t) # {}

\* what _check_case_counts is to answer for the counts it returns
ExpectedReason(cases, controls, min_case_count) ==
    IF cases = 0 \/ controls = 0 THEN "No variation"
    ELSE IF cases < min_case_count THEN "Insufficient cases"
    ELSE IF controls < min_case_count THEN "Insufficient controls"
    ELSE "nan"

C9_CountsAreTrueCounts ==
    \A s \in Validated :
        (config.model \in BinaryModels /\ s.total_n # -9) =>
            /\ s.cases = CountDep(TaskOfSchema(s), 1)
            /\ s.controls = CountDep(TaskOfSchema(s), 0)

\* C10: the returned table is ascending in pval and every row without a
\* p-value comes after every row with one.
C10_SortedNaNLast ==
    pc = "returned" =>
        \A i, j \in 1..Len(table) :
            i < j =>
                /\ table[i].pval = NaN => table[j].pval = NaN
                /\ (table[i].pval # NaN /\ table[j].pval # NaN) =>
                      table[i].pval[1] <= table[j].pval[1]

\* a returned table with two different p-values and a failed row, taken
\* from the generator in another order
C10_Witness ==
    /\ pc = "returned"
    /\ Len(table) = 3
    /\ table[1].pval # NaN /\ table[2].pval # NaN /\ table[3].pval = NaN
    /\ table[1].pval[1] < table[2].pval[1]
    /\ results[1].pval = NaN
    /\ FloatLt(results[3].pval, results[2].pval)

\* C11: the returned table, rows and order, does not depend on the order in
\* which the workers completed the tasks: every order in which the same rows
\* could have come out of the generator gives this one table.
C11_TableIndependentOfCompletionOrder ==
    pc = "returned" =>
        \A f \in Perms(Len(results)) :
            sort_pval(concat([i \in 1..Len(results) |-> results[f[i]]])) = {table}

\* C12: every row _run_single_regression returns has exactly the fields of
\* the schema of the configured model type, whether the task succeeded,
\* failed validation or had its fit raise.
C12_RowHasExactlySchemaFields ==
    \A i \in 1..Len(Emitted) :
        DOMAIN Emitted[i] = DOMAIN _get_output_schema(config.model)

\* C13: a row whose failed_reason is not "nan" has pval, beta, se and the
\* confidence bounds at NaN, and for the logistic family OR at NaN and
\* converged False.
C13_FailedRowKeepsSentinels ==
    \A i \in 1..Len(Emitted) :
        Emitted[i].failed_reason # NoFailure =>
            /\ Emitted[i].pval = NaN
            /\ Emitted[i].beta = NaN
            /\ Emitted[i].se = NaN
            /\ Emitted[i].beta_ci_low = NaN
            /\ Emitted[i].beta_ci_high = NaN
            /\ config.model \in BinaryModels =>
                  Emitted[i].OR = NaN /\ Emitted[i].converged = FALSE

\* a hybrid task whose logistic fit returned a converged result and which
\* then failed inside the try block
C13_Witness ==
    \E t \in DOMAIN fits :
        /\ config.model = "firth-hybrid"
        /\ fits[t] # <<>>
        /\ ~fits[t][1].raised
        /\ fits[t][1].result.converged
        /\ fits[t][1].result.pval # NaN
        /\ \E i \in EmittedFor(t) : Emitted[i].failed_reason # NoFailure

\* task t's covariate c holds a single repeated value over the task's rows
IsConstantFor(t, c) ==
    \A i, j \in 1..height(DfOf(t)) : DfOf(t).rows[i][c] = DfOf(t).rows[j][c]

\* the configured covariates that vary over task t's rows, in configured order
Remaining(t) ==
    SelectSeq(config.covariate_columns, LAMBDA c : ~IsConstantFor(t, c))

\* C18: for a task that passed validation, the design matrix of every fit
\* is the predictor followed by exactly the covariates that are not constant
\* over the task's rows, and the equation names a covariate iff it is not
\* constant.
C18_ConstantCovariatesDropped ==
    \A t \in DOMAIN fits :
        fits[t] # <<>> =>
            /\ \A k \in 1..Len(fits[t]) :
                  fits[t][k].X = <<PairOf(t)[1]>> \o Remaining(t)
            /\ \A i \in EmittedFor(t) :
                  \A c \in Range(config.covariate_columns) :
                      (c \in Range(Emitted[i].equation)) <=> ~IsConstantFor(t, c)

\* a fitted task with two configured covariates, the first constant over the
\* task's rows and the second not
C18_Witness ==
    \E t \in DOMAIN fits :
        /\ config.covariate_columns = <<"c1", "c2">>
        /\ IsConstantFor(t, "c1")
        /\ ~IsConstantFor(t, "c2")
        /\ fits[t] # <<>>
        /\ fits[t][1].X = <<"p1", "c2">>
        /\ EmittedFor(t) # {}

\* C19: no task execution changes the shared config: it always has the
\* values it was constructed with, the covariate list included.
C19_ConfigNeverMutated == config = from_args(args)

\* two tasks of one batch were fitted without the constant covariate c1,
\* which is still configured
C19_Witness ==
    /\ config.covariate_columns = <<"c1">>
    /\ \E t, u \in DOMAIN fits :
          /\ t # u
          /\ fits[t] # <<>> /\ fits[t][1].X = <<PairOf(t)[1]>>
          /\ fits[u] # <<>> /\ fits[u][1].X = <<PairOf(u)[1]>>

\* C20: for a task that passed validation the equation is the dependent,
\* " ~ ", and the predictor and the remaining covariates joined by " + ",
\* whatever the number of remaining covariates.
C20_EquationIsJoinedTerms ==
    \A t \in DOMAIN fits :
        fits[t] # <<>> =>
            \A i \in EmittedFor(t) :
                Emitted[i].equation =
                    <<PairOf(t)[2], " ~ ">> \o Join(<<PairOf(t)[1]>> \o Remaining(t), " + ")

\* C14: at every accepted Newton step of fit_firth the penalized negative
\* log-likelihood at the accepted beta_new is not larger than at the
\* previous beta.
C14_AcceptedStepNotWorse ==
    \A k \in 1..Len(firth.steps) :
        ~FloatGt(firth.steps[k].new_ll, firth.steps[k].old_ll)

\* fit_firth has returned
FirthDone == firth.pc = "done"

\* the outer loop was left because the step was short enough or the
\* iteration count had reached max_iter, and the count returned is within
\* max_iter
C15_StoppedAsSpecified ==
    /\ FirthDone
    /\ firth.ret[1] = firth.carry.iter
    /\ firth.ret[1] <= firth.max_iter
    /\ ~NormGt(firth.norm, firth.convergence_limit) \/ firth.carry.iter = firth.max_iter

\* C15: fit_firth terminates: every call ends having stopped as specified,
\* and the outer loop body runs only while the step is longer than
\* convergence_limit and the iteration count is below max_iter.
C15_TerminatesWithinMaxIter ==
    /\ [](firth.pc = "body" =>
            /\ NormGt(firth.norm, firth.convergence_limit)
            /\ firth.carry.iter < firth.max_iter)
    /\ <>[]C15_StoppedAsSpecified

\* a call that ran out of iterations without converging, after halving
C15_Witness ==
    /\ FirthDone
    /\ firth.max_iter = MaxIter
    /\ firth.ret[1] = firth.max_iter
    /\ NormGt(firth.norm, firth.convergence_limit)
    /\ \E k \in 1..Len(firth.steps) : firth.steps[k].step > 0

\* C16: the log-likelihood fit_firth returns is the value of
\* _firth_loglikelihood at the coefficient vector it returns.
C16_ReturnedLLIsAtReturnedBeta ==
    FirthDone => firth.ret[3] = firth.ll_at_b_new

\* the pipeline call has returned or raised to its caller
PipeExited == pipe.pc \in {"exited", "process_exit"}

\* C17: a KeyboardInterrupt that arrives while preprocess_input or
\* run_all_regressions runs ends the pipeline as a clean abort: no output
\* file is written, no exception reaches the caller, and the temporary IPC
\* file is gone (the file system letting it be removed).
C17_InterruptIsCleanAbort ==
    (/\ PipeExited
     /\ pipe.interrupted_at \in InPreprocess \cup {"analysis"}
     /\ ~pipe.unlink_raises) =>
        /\ ~pipe.output_written
        /\ pipe.exc = ""
        /\ ~pipe.disk

\* the tasks a worker is executing
Running == {w \in DOMAIN workers : workers[w].state # "idle"}

\* C21: while a batch runs, the number of tasks executing concurrently is
\* at most config.num_workers.
C21_AtMostNumWorkersRunning ==
    Running # {} => Cardinality(Running) <= config.num_workers

\* C22: a completed row can always be consumed, whatever the other tasks
\* are doing, and a task waiting in the queue can always be started when a
\* worker is free, whatever the busy workers are doing.
C22_CompletionOrder ==
    /\ (pc = "consume" /\ ready # <<>>) =>
          /\ generator_unordered(ready, results, config) # {}
          /\ ENABLED Consume
    /\ (PoolRuns /\ queue # <<>> /\ Cardinality(Running) < Cardinality(DOMAIN workers)) =>
          ENABLED (\E w \in DOMAIN workers : StartTask(w))

\* the row of a later task has been consumed while an earlier task runs
C22_Witness ==
    \E i \in DOMAIN results : \E w \in Running :
        workers[w].task < TaskOfSchema(results[i])

\* C23: the row of a task whose fit succeeded has a field "model" naming
\* the fitting strategy that produced it: "firth" for a hybrid task whose
\* Firth re-fit ran, the configured model otherwise.
C23_RowRecordsModel ==
    \A t \in DOMAIN fits :
        (fits[t] # <<>> /\ \A k \in DOMAIN fits[t] : ~fits[t][k].raised) =>
            \A i \in EmittedFor(t) :
                Emitted[i].failed_reason = NoFailure =>
                    /\ "model" \in DOMAIN Emitted[i]
                    /\ Emitted[i]["model"] =
                          IF config.model = "firth-hybrid" /\ Len(fits[t]) = 2
                          THEN "firth" ELSE config.model

\* C27: config construction raises ValueError whenever a column is in more
\* than one of the predictor, dependent and covariate lists or a categorical
\* covariate is not a covariate; a constructed config has the three sets
\* pairwise disjoint and the categorical covariates among the covariates.
C27_ColumnSetsDisjoint ==
    LET a == study.args
        P == Range(a.predictors)
        D == Range(a.dependents)
        C == Range(a.covariates)
        CC == Range(a.categorical_covariates)
    IN  /\ (study.pc \in {"constructed", "raised"}
            /\ (P \cap D # {} \/ P \cap C # {} \/ D \cap C # {} \/ ~(CC \subseteq C))) =>
               study.pc = "raised" /\ study.raised = "ValueError"
        /\ study.pc = "constructed" =>
              /\ Range(study.config.predictor_columns) \cap
                    Range(study.config.dependent_columns) = {}
              /\ Range(study.config.predictor_columns) \cap
                    Range(study.config.covariate_columns) = {}
              /\ Range(study.config.dependent_columns) \cap
                    Range(study.config.covariate_columns) = {}
              /\ Range(study.config.categorical_covariate_columns) \subseteq
                    Range(study.config.covariate_columns)

\* the column lists all name columns of the file, a dependent is also a
\* covariate, and the construction raised at the uniqueness check
C27_Witness ==
    /\ study.pc = "raised"
    /\ study.config # <<>>
    /\ Range(study.args.dependents) \cap Range(study.args.covariates) # {}
    /\ Range(study.args.predictors) \cap Range(study.args.dependents) = {}
    /\ Range(study.args.predictors) \cap Range(study.args.covariates) = {}

\* the rows of the study's IPC file without a null in the predictor, the
\* dependent or a covariate of the task
CompleteRows ==
    {i \in 1..Len(study.ipc) :
        \A c \in Range(study.df.columns) : study.ipc[i][c] # None}

\* C24: no row handed to the validator or to a fit has a null in the
\* predictor, the dependent or a covariate of the task, and the validator's
\* row counts are those of the rows without such a null.
C24_NoNullReachesTask ==
    /\ study.pc \in {"fit", "fitted", "emitted"} =>
          /\ \A i \in 1..height(study.df) : \A c \in Range(study.df.columns) :
                study.df.rows[i][c] # None
          /\ height(study.df) = Cardinality(CompleteRows)
          /\ study.schema.failed_reason[1] = "Insufficient data" =>
                study.schema.failed_reason[2] = Cardinality(CompleteRows)
          /\ (study.config.model = "linear"
              /\ study.schema.failed_reason[1] # "Insufficient data") =>
                study.schema.n_observations = Cardinality(CompleteRows)
          /\ (study.config.model = "logistic"
              /\ study.schema.failed_reason[1] # "Insufficient data") =>
                /\ study.schema.total_n = Cardinality(CompleteRows)
                /\ study.schema.cases =
                      Cardinality({i \in CompleteRows : study.ipc[i]["d1"] = <<1>>})
                /\ study.schema.controls =
                      Cardinality({i \in CompleteRows : study.ipc[i]["d1"] = <<0>>})
    /\ study.pc = "fitted" =>
          \A i \in 1..Len(study.X) : \A c \in DOMAIN study.X[i] : study.X[i][c] # None

\* the input file had a null in a covariate the task uses, the rows with a
\* null were excluded and the task reached its fit
C24_Witness ==
    /\ study.pc = "fitted"
    /\ study.config.missing_covariates_operation = "drop"
    /\ "c1" \in Range(study.df.columns)
    /\ \E i \in 1..Len(study.input.rows) :
          /\ study.input.rows[i]["c1"] = None
          /\ study.input.rows[i]["p1"] # None
    /\ Len(study.X) >= 2

\* C25: the model a fit function fits has an intercept term iff
\* config.fit_intercept is true.
C25_InterceptIffConfigured ==
    \A t \in DOMAIN fits : \A k \in DOMAIN fits[t] :
        fits[t][k].intercept <=> config.fit_intercept

C28_HalvingsWithinMaxHalfstep ==
    /\ \A k \in 1..Len(firth.steps) : firth.steps[k].step <= firth.max_halfstep
    /\ firth.pc = "halving" => firth.inner.step <= firth.max_halfstep

\* C30: when preprocess_input raised before the temporary file was created
\* (config.ipc_file is None), the pipeline call ends with that exception:
\* the finally block neither raises nor replaces it.
C30_PreprocessErrorPropagates ==
    (pipe.pc = "exited" /\ pipe.ipc_file = None /\ pipe.in_flight # "") =>
        pipe.exc = pipe.in_flight

\* C29: every fit function a task calls runs under the thread cap
\* config.threads_per_worker, and no worker holds a cap while it is idle,
\* loads and validates a task's data, or has emitted the task's row.
C29_ThreadCapOnlyAroundFit ==
    /\ \A t \in DOMAIN fits : \A k \in DOMAIN fits[t] :
          fits[t][k].limits = <<config.threads_per_worker>>
    /\ \A w \in DOMAIN workers : workers[w].limits = None

\* a task's fit raised, its row was emitted and its worker went on to the
\* validation of a later task
C29_Witness ==
    \E t \in DOMAIN fits : \E w \in DOMAIN workers :
        /\ fits[t] # <<>>
        /\ fits[t][1].raised
        /\ EmittedFor(t) # {}
        /\ workers[w].state = "validate"
        /\ workers[w].task > t
        /\ Cardinality(DOMAIN workers) = 1

====
